---------------------------- MODULE Spec2Model ----------------------------
(***************************************************************************)
(* Verification model of the k6 fault-injection scenarios of the Therac-25  *)
(* quality suite: the counter-overflow stress driver and its specific       *)
(* overflow scenarios (quality/k6-scenarios/stress-overflow.js), the        *)
(* concurrent-operations scenario (workflow dispatch, execution,            *)
(* classification, race counter, summary) and the evaluation of the         *)
(* thresholds of a run.                                                     *)
(*                                                                          *)
(* Outcome tokens are TLA+ strings; String.includes, trim and the template  *)
(* literals are computed character by character on them.  The target        *)
(* (ControlModule) is an external collaborator: its counter is the 8-bit    *)
(* setup counter the scenarios are written against, and the results of its  *)
(* operations are nondeterministic.                                         *)
(***************************************************************************)
EXTENDS Integers, Sequences, FiniteSets, TLC

VARIABLES
    scenario,           \* the script this k6 run executes
    \* ---- overflow stress driver (stress-overflow.js, performOverflowTest)
    c,                  \* the ControlModule instance of the Python script
    patient,            \* loop variable of "for patient in range(1, 301)"
    current_counter,    \* c.setup_counter as read at line 70
    critical_points,    \* list of (patient, counter)
    safety_bypasses,    \* list of patients
    overflow_detected,  \* flag
    probe_log,          \* history: one record per bypass probe (line 83/84)
    wraps,              \* history: the setup calls that made the counter decrease
    stdout,             \* what the script has printed so far
    ovpc,               \* position in performOverflowTest / default
    ovResult,           \* "result" of the default function
    ovChecks,           \* check results recorded by check(result, checks)
    ovThrew,            \* history: execSync threw
    \* ---- concurrent-operations scenario, one entry per VU
    vupc,               \* position of the VU in the default function
    workflow,           \* "workflow" of the running iteration
    step,               \* index of the script step the Python child is at
    todo,               \* tasks of that step which have not run yet
    target,             \* the ControlModule instance "c" of the Python child
    py_result,          \* "result" of the Python child (what fire_beam returned)
    opLog,              \* history: the target operations the child has executed, in order
    result,             \* "result" of the default function
    threw,              \* history: execSync threw in this iteration
    lastChecks,         \* check results of this iteration
    \* ---- concurrent-operations scenario, run-wide
    raceConditionsDetected, \* the module-level counter, one per JS runtime
    checks_passes,      \* k6 metric "checks": passes
    checks_fails,       \* k6 metric "checks": fails
    iterations,         \* k6 metric "iterations"
    raceIterations,     \* history: completed classifications that saw RACE/CONFLICT
    summary,            \* what handleSummary wrote to summary.json
    \* ---- inputs of the pure-function specifications
    clInput,            \* the markers and the form the classified token was built from
    dVuId,              \* the VU id the dispatch is called with
    dReturned,          \* the names the successive dispatch calls returned
    \* ---- end of the run
    snapshot,           \* the metrics snapshot the thresholds are evaluated against
    verdict,            \* the result of the threshold evaluation
    \* ---- testSpecificOverflowScenarios (stress-overflow.js)
    spc,                \* position in the Python script / the function
    sk,                 \* the scenario the script is at: 1, 2, 3 for c1, c2, c3
    loop_i,             \* setups done by the loop of the scenario
    ctl,                \* the ControlModule instances c1, c2, c3
    scenarios,          \* list of (name, counter, result)
    invalid_dose_accepted,  \* what the probe of scenario 2 returned
    spStdout,           \* what the script has printed so far
    spResult            \* what testSpecificOverflowScenarios returns

ovVars == <<c, patient, current_counter, critical_points, safety_bypasses,
            overflow_detected, probe_log, wraps, stdout, ovpc, ovResult, ovChecks,
            ovThrew>>

vuVars == <<vupc, workflow, step, todo, target, py_result, opLog, result, threw,
            lastChecks>>

runVars == <<raceConditionsDetected, checks_passes, checks_fails, iterations,
             raceIterations, summary>>

ccVars == <<vuVars, runVars>>

pureVars == <<clInput, dVuId, dReturned>>

evVars == <<snapshot, verdict>>

spVars == <<spc, sk, loop_i, ctl, scenarios, invalid_dose_accepted, spStdout, spResult>>

vars == <<scenario, ovVars, ccVars, pureVars, evVars, spVars>>

---------------------------------------------------------------------------
(* Strings                                                                 *)

\* String.prototype.includes: m occurs somewhere in r
Includes(r, m) ==
    \E i \in 1..(Len(r) - Len(m) + 1) : SubSeq(r, i, i + Len(m) - 1) = m

\* String.prototype.startsWith
StartsWith(r, m) == Len(r) >= Len(m) /\ SubSeq(r, 1, Len(m)) = m

IsSpace(ch) == ch \in {" ", "\n", "\t", "\r"}

RECURSIVE TrimLeft(_)
TrimLeft(s) ==
    IF Len(s) > 0 /\ IsSpace(SubSeq(s, 1, 1)) THEN TrimLeft(SubSeq(s, 2, Len(s))) ELSE s

RECURSIVE TrimRight(_)
TrimRight(s) ==
    IF Len(s) > 0 /\ IsSpace(SubSeq(s, Len(s), Len(s)))
    THEN TrimRight(SubSeq(s, 1, Len(s) - 1)) ELSE s

\* String.prototype.trim
Trim(s) == TrimRight(TrimLeft(s))

\* Python str(bool)
PyBool(b) == IF b THEN "True" ELSE "False"

\* Python repr of a list of 2-tuples of ints: [(253, 253), (254, 254)]
RECURSIVE PyTuples(_)
PyTuples(l) ==
    IF Len(l) = 0 THEN ""
    ELSE "(" \o ToString(Head(l)[1]) \o ", " \o ToString(Head(l)[2]) \o ")"
         \o (IF Len(l) > 1 THEN ", " ELSE "") \o PyTuples(Tail(l))

PyList(l) == "[" \o PyTuples(l) \o "]"

\* Python sep.join(parts)
RECURSIVE Join(_, _)
Join(sep, parts) ==
    IF Len(parts) = 0 THEN ""
    ELSE IF Len(parts) = 1 THEN Head(parts)
    ELSE Head(parts) \o sep \o Join(sep, Tail(parts))

---------------------------------------------------------------------------
(* The target: ControlModule('buggy')                                      *)

\* width of the target's setup counter
CounterBits == 8

CounterModulus == 2 ^ CounterBits

\* the dose the overflow driver probes with ("Invalid dose")
ProbeDose == 99999

\* a freshly constructed ControlModule
NewControlModule ==
    [setup_counter |-> 0, dose_value |-> 0, position_x |-> 0, position_y |-> 0,
     mode |-> "NONE"]

\* the smallest dose the scripts treat as invalid (50000 and 99999 are "invalid
\* dose" probes, every other dose of the scripts is below 1000)
InvalidDoseFrom == 50000

\* the (result, stored) outcomes the target may give to setup_treatment(dose,..):
\* a dose in range is accepted and stored; the target's answer to an
\* out-of-range dose is the behaviour under test, so every answer is possible
SetupOutcomes(dose) ==
    IF dose >= InvalidDoseFrom THEN BOOLEAN \X BOOLEAN ELSE {<<TRUE, TRUE>>}

\* the counter after one more setup
NextCounter(n) == (n + 1) % CounterModulus

\* c.setup_treatment(dose, x, y) with outcome o = <<result, stored>>:
\* every call advances the setup counter
SetupTreatment(cm, dose, x, y, o) ==
    IF o[2]
    THEN [cm EXCEPT !.setup_counter = NextCounter(@), !.dose_value = dose,
                    !.position_x = x, !.position_y = y]
    ELSE [cm EXCEPT !.setup_counter = NextCounter(@)]

---------------------------------------------------------------------------
(* Overflow stress driver: stress-overflow.js                              *)

\* "for patient in range(1, 301)"
NumPatients == 300

\* "patient > 255" of the overflow test
DetectAfter == 255

\* "if current_counter in [253, 254, 255, 0, 1, 2]"
CriticalWindowWithoutZero == {253, 254, 255, 1, 2}

CriticalWindow == {253, 254, 255, 0, 1, 2}

InCriticalWindow(counter) == counter \in CriticalWindow

\* "if current_counter == 0 and patient > 255"
OverflowTestLate(counter, p) == counter = 0 /\ p > DetectAfter + 1

OverflowTestOr(counter, p) == counter = 0 \/ p > DetectAfter

OverflowTest(counter, p) == counter = 0 /\ p > DetectAfter

\* "if safety_test and c.dose_value == 99999"
BypassTestAlways(safety_test, dose_value) == TRUE

BypassTest(safety_test, dose_value) == safety_test /\ dose_value = ProbeDose

\* the dose, x and y of the main-loop setup of a patient
PatientDose(p) == 200 + (p % 100)

PatientX(p) == p % 50

PatientY(p) == p % 30

\* "if patient % 50 == 0: print(f'Processed {patient}/300 patients...')"
ProgressLine(p) ==
    IF p % 50 = 0 THEN "Processed " \o ToString(p) \o "/300 patients...\n" ELSE ""

\* the command handed to execSync
overflowCommand ==
    "cd /app && python -c \"\n"
    \o "from src.simulator.control_module import ControlModule, BeamMode\n"
    \o "import time\n"
    \o "\n"
    \o "print('Starting overflow stress test...')\n"
    \o "c = ControlModule('buggy')\n"
    \o "\n"
    \o "# Track critical counter values\n"
    \o "critical_points = []\n"
    \o "safety_bypasses = []\n"
    \o "overflow_detected = False\n"
    \o "\n"
    \o "# Simulate 300 patients to force counter overflow\n"
    \o "for patient in range(1, 301):\n"
    \o "    # Each patient setup increments counter\n"
    \o "    result = c.setup_treatment(\n"
    \o "        dose=200 + (patient % 100),  # Vary dose\n"
    \o "        x=patient % 50,\n"
    \o "        y=patient % 30\n"
    \o "    )\n"
    \o "\n"
    \o "    current_counter = c.setup_counter\n"
    \o "\n"
    \o "    # Track critical points around overflow\n"
    \o "    if current_counter in [253, 254, 255, 0, 1, 2]:\n"
    \o "        critical_points.append((patient, current_counter))\n"
    \o "        print(f'Patient {patient}: Counter = {current_counter}')\n"
    \o "\n"
    \o "    # Test for overflow\n"
    \o "    if current_counter == 0 and patient > 255:\n"
    \o "        overflow_detected = True\n"
    \o "        print(f'OVERFLOW DETECTED at patient {patient}')\n"
    \o "\n"
    \o "        # Test if safety is bypassed when counter = 0\n"
    \o "        safety_test = c.setup_treatment(dose=99999, x=0, y=0)  # Invalid dose\n"
    \o "        if safety_test and c.dose_value == 99999:\n"
    \o "            safety_bypasses.append(patient)\n"
    \o "            print(f'SAFETY BYPASS at patient {patient} - invalid dose accepted!')\n"
    \o "\n"
    \o "    # Brief simulation of treatment time\n"
    \o "    if patient % 50 == 0:\n"
    \o "        print(f'Processed {patient}/300 patients...')\n"
    \o "\n"
    \o "print(f'Test completed. Critical points: {critical_points}')\n"
    \o "print(f'Overflow detected: {overflow_detected}')\n"
    \o "print(f'Safety bypasses: {len(safety_bypasses)}')\n"
    \o "\n"
    \o "# Return summary\n"
    \o "result_parts = []\n"
    \o "if overflow_detected:\n"
    \o "    result_parts.append('OVERFLOW_DETECTED')\n"
    \o "if safety_bypasses:\n"
    \o "    result_parts.append('SAFETY_BYPASS')\n"
    \o "if any(point[1] == 0 for point in critical_points):\n"
    \o "    result_parts.append('COUNTER_0')\n"
    \o "\n"
    \o "result_parts.append(f'CRITICAL_POINTS:{len(critical_points)}')\n"
    \o "result_parts.append(f'BYPASSES:{len(safety_bypasses)}')\n"
    \o "\n"
    \o "print(':'.join(result_parts))\n"
    \o "\""

\* error.message of the exception execSync throws: the timeout kills the
\* child ("timeout: 120000"), or the child exits with a failure
OverflowErrors ==
    { "spawnSync /bin/sh ETIMEDOUT",
      "Command failed: " \o overflowCommand \o "\n/bin/sh: 1: python: not found\n" }

\* the checks of the default function, applied to its result
OverflowChecks(r) ==
    ("Counter overflow reproduced" :> Includes(r, "OVERFLOW_DETECTED"))
    @@ ("Safety bypass confirmed" :> Includes(r, "SAFETY_BYPASS"))
    @@ ("Critical bug present" :> Includes(r, "COUNTER_0"))

\* the setup calls issued so far: one per patient, one per probe
Setups == patient + Len(probe_log)

\* the summary token: result_parts joined by ':'
ResultParts ==
    (IF overflow_detected THEN <<"OVERFLOW_DETECTED">> ELSE <<>>)
    \o (IF Len(safety_bypasses) > 0 THEN <<"SAFETY_BYPASS">> ELSE <<>>)
    \o (IF \E i \in 1..Len(critical_points) : critical_points[i][2] = 0
        THEN <<"COUNTER_0">> ELSE <<>>)
    \o << "CRITICAL_POINTS:" \o ToString(Len(critical_points)),
          "BYPASSES:" \o ToString(Len(safety_bypasses)) >>

OvInit ==
    /\ c = NewControlModule
    /\ patient = 0
    /\ current_counter = 0
    /\ critical_points = <<>>
    /\ safety_bypasses = <<>>
    /\ overflow_detected = FALSE
    /\ probe_log = <<>>
    /\ wraps = {}
    /\ stdout = "Starting overflow stress test...\n"
    /\ ovpc = "loop"
    /\ ovResult = ""
    /\ ovChecks = <<>>
    /\ ovThrew = FALSE

\* lines 62-70: the setup of the next patient and the read of the counter
OvSetup ==
    /\ scenario = "overflow"
    /\ ovpc = "loop"
    /\ patient < NumPatients
    /\ \E o \in SetupOutcomes(PatientDose(patient + 1)) :
          c' = SetupTreatment(c, PatientDose(patient + 1), PatientX(patient + 1),
                              PatientY(patient + 1), o)
    /\ patient' = patient + 1
    /\ current_counter' = c'.setup_counter
    /\ wraps' = IF c'.setup_counter < c.setup_counter
                THEN wraps \cup {<<"patient", patient + 1>>} ELSE wraps
    /\ ovpc' = "track"
    /\ UNCHANGED <<critical_points, safety_bypasses, overflow_detected, probe_log,
                   stdout, ovResult, ovChecks, ovThrew>>
    /\ UNCHANGED <<scenario, ccVars, pureVars, evVars, spVars>>

\* lines 72-80 (and 89-90 when no overflow is detected)
OvTrack ==
    /\ scenario = "overflow"
    /\ ovpc = "track"
    /\ critical_points' =
          IF InCriticalWindow(current_counter)
          THEN Append(critical_points, <<patient, current_counter>>)
          ELSE critical_points
    /\ IF OverflowTest(current_counter, patient)
       THEN /\ overflow_detected' = TRUE
            /\ ovpc' = "probe"
       ELSE /\ overflow_detected' = overflow_detected
            /\ ovpc' = "loop"
    /\ stdout' = stdout
          \o (IF InCriticalWindow(current_counter)
              THEN "Patient " \o ToString(patient) \o ": Counter = "
                   \o ToString(current_counter) \o "\n"
              ELSE "")
          \o (IF OverflowTest(current_counter, patient)
              THEN "OVERFLOW DETECTED at patient " \o ToString(patient) \o "\n"
              ELSE ProgressLine(patient))
    /\ UNCHANGED <<c, patient, current_counter, safety_bypasses, probe_log, wraps,
                   ovResult, ovChecks, ovThrew>>
    /\ UNCHANGED <<scenario, ccVars, pureVars, evVars, spVars>>

\* lines 82-90: the probe with the invalid dose
OvProbe ==
    /\ scenario = "overflow"
    /\ ovpc = "probe"
    /\ \E o \in SetupOutcomes(ProbeDose) :
          /\ c' = SetupTreatment(c, ProbeDose, 0, 0, o)
          /\ probe_log' = Append(probe_log,
                [patient |-> patient, safety_test |-> o[1],
                 dose_value |-> c'.dose_value])
          /\ IF BypassTest(o[1], c'.dose_value)
             THEN /\ safety_bypasses' = Append(safety_bypasses, patient)
                  /\ stdout' = stdout \o "SAFETY BYPASS at patient " \o ToString(patient)
                                 \o " - invalid dose accepted!\n" \o ProgressLine(patient)
             ELSE /\ safety_bypasses' = safety_bypasses
                  /\ stdout' = stdout \o ProgressLine(patient)
    /\ wraps' = IF c'.setup_counter < c.setup_counter
                THEN wraps \cup {<<"probe", patient>>} ELSE wraps
    /\ ovpc' = "loop"
    /\ UNCHANGED <<patient, current_counter, critical_points, overflow_detected,
                   ovResult, ovChecks, ovThrew>>
    /\ UNCHANGED <<scenario, ccVars, pureVars, evVars, spVars>>

\* lines 92-108: the loop is over, the script prints its summary and exits
OvReport ==
    /\ scenario = "overflow"
    /\ ovpc = "loop"
    /\ patient = NumPatients
    /\ stdout' = stdout
          \o "Test completed. Critical points: " \o PyList(critical_points) \o "\n"
          \o "Overflow detected: " \o PyBool(overflow_detected) \o "\n"
          \o "Safety bypasses: " \o ToString(Len(safety_bypasses)) \o "\n"
          \o Join(":", ResultParts) \o "\n"
    /\ ovpc' = "exited"
    /\ UNCHANGED <<c, patient, current_counter, critical_points, safety_bypasses,
                   overflow_detected, probe_log, wraps, ovResult, ovChecks, ovThrew>>
    /\ UNCHANGED <<scenario, ccVars, pureVars, evVars, spVars>>

\* lines 111-117: execSync returns the script's output
OvReturn ==
    /\ scenario = "overflow"
    /\ ovpc = "exited"
    /\ ovResult' = Trim(stdout)
    /\ ovpc' = "returned"
    /\ UNCHANGED <<c, patient, current_counter, critical_points, safety_bypasses,
                   overflow_detected, probe_log, wraps, stdout, ovChecks, ovThrew>>
    /\ UNCHANGED <<scenario, ccVars, pureVars, evVars, spVars>>

\* the token the catch of performOverflowTest returns
OverflowErrorTokenBare(msg) == msg

OverflowErrorToken(msg) == "ERROR: " \o msg

\* lines 119-122: execSync throws while the script runs or when it ends
OvThrow ==
    /\ scenario = "overflow"
    /\ ovpc \in {"loop", "track", "probe", "exited"}
    /\ \E msg \in OverflowErrors : ovResult' = OverflowErrorToken(msg)
    /\ ovThrew' = TRUE
    /\ ovpc' = "returned"
    /\ UNCHANGED <<c, patient, current_counter, critical_points, safety_bypasses,
                   overflow_detected, probe_log, wraps, stdout, ovChecks>>
    /\ UNCHANGED <<scenario, ccVars, pureVars, evVars, spVars>>

\* lines 30-38: check(result, checks)
OvCheck ==
    /\ scenario = "overflow"
    /\ ovpc = "returned"
    /\ ovChecks' = OverflowChecks(ovResult)
    /\ ovpc' = "done"
    /\ UNCHANGED <<c, patient, current_counter, critical_points, safety_bypasses,
                   overflow_detected, probe_log, wraps, stdout, ovResult, ovThrew>>
    /\ UNCHANGED <<scenario, ccVars, pureVars, evVars, spVars>>

OvNext ==
    \/ OvSetup
    \/ OvTrack
    \/ OvProbe
    \/ OvReport
    \/ OvReturn
    \/ OvThrow
    \/ OvCheck

---------------------------------------------------------------------------
(* Overflow stress driver: testSpecificOverflowScenarios                   *)

\* "invalid_dose_accepted = c2.setup_treatment(50000, 0, 0)"
SpecificProbeDose == 50000

\* the dose of the setups of the three scenarios
SpecificDose == 100

\* "for i in range(255)", "range(256)", "range(257)" of c1, c2, c3
SpecificSetups == <<255, 256, 257>>

\* the command handed to execSync
specificCommand ==
    "cd /app && python -c \"\n"
    \o "from src.simulator.control_module import ControlModule\n"
    \o "import time\n"
    \o "\n"
    \o "scenarios = []\n"
    \o "\n"
    \o "# Test scenario 1: Exactly at limit (255)\n"
    \o "print('Testing counter at 255...')\n"
    \o "c1 = ControlModule('buggy')\n"
    \o "for i in range(255):\n"
    \o "    c1.setup_treatment(100, 0, 0)\n"
    \o "\n"
    \o "scenarios.append(('AT_LIMIT', c1.setup_counter, c1.setup_treatment(100, 0, 0)))\n"
    \o "\n"
    \o "# Test scenario 2: Overflow to 0\n"
    \o "print('Testing overflow to 0...')\n"
    \o "c2 = ControlModule('buggy')\n"
    \o "for i in range(256):\n"
    \o "    c2.setup_treatment(100, 0, 0)\n"
    \o "\n"
    \o "# Try invalid dose when counter = 0\n"
    \o "invalid_dose_accepted = c2.setup_treatment(50000, 0, 0)\n"
    \o "scenarios.append(('OVERFLOW_0', c2.setup_counter, invalid_dose_accepted))\n"
    \o "\n"
    \o "# Test scenario 3: After overflow\n"
    \o "print('Testing after overflow...')\n"
    \o "c3 = ControlModule('buggy')\n"
    \o "for i in range(257):\n"
    \o "    c3.setup_treatment(100, 0, 0)\n"
    \o "\n"
    \o "scenarios.append(('AFTER_OVERFLOW', c3.setup_counter, True))\n"
    \o "\n"
    \o "for scenario, counter, result in scenarios:\n"
    \o "    print(f'{scenario}:COUNTER_{counter}:RESULT_{result}')\n"
    \o "\n"
    \o "print('SPECIFIC_TESTS_COMPLETED')\n"
    \o "\""

\* error.message of the exception execSync throws ("timeout: 30000")
SpecificErrors ==
    { "spawnSync /bin/sh ETIMEDOUT",
      "Command failed: " \o specificCommand \o "\n/bin/sh: 1: python: not found\n" }

\* "print(f'{scenario}:COUNTER_{counter}:RESULT_{result}')" for each tuple
RECURSIVE ScenarioLines(_)
ScenarioLines(l) ==
    IF Len(l) = 0 THEN ""
    ELSE Head(l)[1] \o ":COUNTER_" \o ToString(Head(l)[2]) \o ":RESULT_"
         \o PyBool(Head(l)[3]) \o "\n" \o ScenarioLines(Tail(l))

SpInit ==
    /\ spc = "loop"
    /\ sk = 1
    /\ loop_i = 0
    /\ ctl = [k \in 1..Len(SpecificSetups) |-> NewControlModule]
    /\ scenarios = <<>>
    /\ invalid_dose_accepted = FALSE
    /\ spStdout = "Testing counter at 255...\n"
    /\ spResult = ""

\* one pass of the loop of scenario sk: "c.setup_treatment(100, 0, 0)"
SpSetup ==
    /\ spc = "loop"
    /\ loop_i < SpecificSetups[sk]
    /\ \E o \in SetupOutcomes(SpecificDose) :
          ctl' = [ctl EXCEPT ![sk] = SetupTreatment(@, SpecificDose, 0, 0, o)]
    /\ loop_i' = loop_i + 1
    /\ UNCHANGED <<spc, sk, scenarios, invalid_dose_accepted, spStdout, spResult>>
    /\ UNCHANGED <<scenario, ovVars, ccVars, pureVars, evVars>>

\* line 143: the tuple reads c1.setup_counter, then calls setup_treatment
SpAtLimit ==
    /\ spc = "loop"
    /\ sk = 1
    /\ loop_i = SpecificSetups[sk]
    /\ \E o \in SetupOutcomes(SpecificDose) :
          /\ ctl' = [ctl EXCEPT ![1] = SetupTreatment(@, SpecificDose, 0, 0, o)]
          /\ scenarios' = Append(scenarios, <<"AT_LIMIT", ctl[1].setup_counter, o[1]>>)
    /\ sk' = 2
    /\ loop_i' = 0
    /\ spStdout' = spStdout \o "Testing overflow to 0...\n"
    /\ UNCHANGED <<spc, invalid_dose_accepted, spResult>>
    /\ UNCHANGED <<scenario, ovVars, ccVars, pureVars, evVars>>

\* line 152: the invalid dose is tried on c2
SpProbe ==
    /\ spc = "loop"
    /\ sk = 2
    /\ loop_i = SpecificSetups[sk]
    /\ \E o \in SetupOutcomes(SpecificProbeDose) :
          /\ ctl' = [ctl EXCEPT ![2] = SetupTreatment(@, SpecificProbeDose, 0, 0, o)]
          /\ invalid_dose_accepted' = o[1]
    /\ spc' = "probed"
    /\ UNCHANGED <<sk, loop_i, scenarios, spStdout, spResult>>
    /\ UNCHANGED <<scenario, ovVars, ccVars, pureVars, evVars>>

\* line 153: the tuple reads c2.setup_counter
SpOverflow0 ==
    /\ spc = "probed"
    /\ scenarios' = Append(scenarios,
                            <<"OVERFLOW_0", ctl[2].setup_counter, invalid_dose_accepted>>)
    /\ sk' = 3
    /\ loop_i' = 0
    /\ spc' = "loop"
    /\ spStdout' = spStdout \o "Testing after overflow...\n"
    /\ UNCHANGED <<ctl, invalid_dose_accepted, spResult>>
    /\ UNCHANGED <<scenario, ovVars, ccVars, pureVars, evVars>>

\* lines 161-166: the last tuple, the report of the scenarios, the end
SpAfterOverflow ==
    /\ spc = "loop"
    /\ sk = 3
    /\ loop_i = SpecificSetups[sk]
    /\ scenarios' = Append(scenarios, <<"AFTER_OVERFLOW", ctl[3].setup_counter, TRUE>>)
    /\ spStdout' = spStdout \o ScenarioLines(scenarios') \o "SPECIFIC_TESTS_COMPLETED\n"
    /\ spc' = "exited"
    /\ UNCHANGED <<sk, loop_i, ctl, invalid_dose_accepted, spResult>>
    /\ UNCHANGED <<scenario, ovVars, ccVars, pureVars, evVars>>

\* lines 170-171: execSync returns the script's output
SpReturn ==
    /\ spc = "exited"
    /\ spResult' = Trim(spStdout)
    /\ spc' = "returned"
    /\ UNCHANGED <<sk, loop_i, ctl, scenarios, invalid_dose_accepted, spStdout>>
    /\ UNCHANGED <<scenario, ovVars, ccVars, pureVars, evVars>>

\* lines 173-175: execSync throws while the script runs or when it ends
SpThrow ==
    /\ spc \in {"loop", "probed", "exited"}
    /\ \E msg \in SpecificErrors : spResult' = "SPECIFIC_ERROR: " \o msg
    /\ spc' = "returned"
    /\ UNCHANGED <<sk, loop_i, ctl, scenarios, invalid_dose_accepted, spStdout>>
    /\ UNCHANGED <<scenario, ovVars, ccVars, pureVars, evVars>>

SpNext ==
    \/ SpSetup
    \/ SpAtLimit
    \/ SpProbe
    \/ SpOverflow0
    \/ SpAfterOverflow
    \/ SpReturn
    \/ SpThrow

---------------------------------------------------------------------------
(* Concurrent-operations scenario: workflow dispatch and the scripts       *)

\* VU ids are 1..NumVUs (exec.vu.idInInstance)
NumVUs == 5

\* VUs that may be inside an iteration at the same time (the stage target)
MaxActive == 2

\* iterations started in one run
MaxIterations == 2

VUs == 1..NumVUs

\* the JS runtime handleSummary runs in; the VU runtimes are 1..NumVUs
SummaryRuntime == 0

Runtimes == {SummaryRuntime} \cup VUs

\* "const workflows = [...]"
workflowsMisspelt ==
    << "experienced_fast", "new_cautious", "emergency_rapid", "routine_edit",
       "mode_switching" >>

workflows ==
    << "experienced_fast", "new_cautious", "emergency_rapid", "routine_editing",
       "mode_switching" >>

\* "return workflows[vuId % workflows.length]" (TLA+ sequences start at 1)
getWorkflowForOperatorShifted(vuId) ==
    workflows[((vuId + Len(workflows) - 1) % Len(workflows)) + 1]

getWorkflowForOperator(vuId) == workflows[(vuId % Len(workflows)) + 1]

\* the operations a script performs on its ControlModule
SetupOp(dose, x, y) == [op |-> "setup", f1 |-> dose, f2 |-> x, f3 |-> y, name |-> "setup"]

ModeOp(m) == [op |-> "mode", f1 |-> 0, f2 |-> 0, f3 |-> 0, name |-> m]

EditOp(field, value) ==
    [op |-> "edit", f1 |-> value, f2 |-> 0, f3 |-> 0, name |-> field]

FireOp == [op |-> "fire", f1 |-> 0, f2 |-> 0, f3 |-> 0, name |-> "fire"]

\* A script is a sequence of steps; a step is the set of operations that run
\* as concurrent tasks of that step (one operation when the step is sequential).
executeExperiencedFast(vuId) ==
    << {SetupOp(200 + vuId * 10, vuId * 5, vuId * 3)},
       {ModeOp("XRAY")}, {ModeOp("ELECTRON")}, {FireOp} >>

executeEmergencyRapid(vuId) ==
    << {SetupOp(300, vuId * 2, vuId * 4)}, {ModeOp("ELECTRON")}, {FireOp} >>

\* edit1, edit2 (threads t1, t2) and fire_beam (main thread) run unsynchronised
executeRoutineEditingJoined(vuId) ==
    << {SetupOp(250, 10, 15)},
       {EditOp("dose", 400 + vuId * 50), EditOp("position_x", vuId * 7)}, {FireOp} >>

executeRoutineEditing(vuId) ==
    << {SetupOp(250, 10, 15)},
       {EditOp("dose", 400 + vuId * 50), EditOp("position_x", vuId * 7), FireOp} >>

executeModeSwitching(vuId) ==
    << {SetupOp(275, vuId * 6, vuId * 8)},
       {ModeOp("XRAY")}, {ModeOp("ELECTRON")}, {ModeOp("XRAY")},
       {ModeOp("ELECTRON")}, {FireOp} >>

executeStandardWorkflow(vuId) ==
    << {SetupOp(225 + vuId * 15, vuId * 4, vuId * 5)}, {ModeOp("ELECTRON")}, {FireOp} >>

executeNewCautious(vuId) ==
    << {SetupOp(180, vuId * 3, vuId * 2)}, {ModeOp("ELECTRON")}, {FireOp} >>

\* the switch of executeWorkflow
WorkflowScript(w, vuId) ==
    CASE w = "experienced_fast" -> executeExperiencedFast(vuId)
      [] w = "new_cautious"     -> executeNewCautious(vuId)
      [] w = "emergency_rapid"  -> executeEmergencyRapid(vuId)
      [] w = "routine_editing"  -> executeRoutineEditing(vuId)
      [] w = "mode_switching"   -> executeModeSwitching(vuId)
      [] OTHER                  -> executeStandardWorkflow(vuId)

\* the "case" labels of the switch of executeWorkflow
CaseNames ==
    { "experienced_fast", "new_cautious", "emergency_rapid", "routine_editing",
      "mode_switching" }

\* the branch of the switch a workflow name selects
SwitchBranch(w) == IF w \in CaseNames THEN w ELSE "default"

\* the label each script prints in front of the result of fire_beam
WorkflowLabel(w) ==
    CASE w = "experienced_fast" -> "OPERATOR_"
      [] w = "new_cautious"     -> "CAUTIOUS_"
      [] w = "emergency_rapid"  -> "EMERGENCY_"
      [] w = "routine_editing"  -> "EDITING_"
      [] w = "mode_switching"   -> "SWITCHING_"
      [] OTHER                  -> "STANDARD_"

\* the commands handed to execSync
experiencedFastCommand(vuId) ==
    "cd /app && python -c \"\n"
    \o "from src.simulator.control_module import ControlModule, BeamMode\n"
    \o "import time\n"
    \o "import threading\n"
    \o "\n"
    \o "c = ControlModule('buggy')\n"
    \o "\n"
    \o "# Fast setup like experienced operator\n"
    \o "c.setup_treatment(" \o ToString(200 + vuId * 10) \o ", " \o ToString(vuId * 5) \o ", " \o ToString(vuId * 3) \o ")\n"
    \o "\n"
    \o "# Quick mode changes (this is dangerous!)\n"
    \o "c.change_mode(BeamMode.XRAY)\n"
    \o "time.sleep(0.05)  # Very brief pause\n"
    \o "c.change_mode(BeamMode.ELECTRON)\n"
    \o "\n"
    \o "# Fire immediately\n"
    \o "result = c.fire_beam()\n"
    \o "print(f'OPERATOR_" \o ToString(vuId) \o ":{result}')\n"
    \o "\""

emergencyRapidCommand(vuId) ==
    "cd /app && python -c \"\n"
    \o "from src.simulator.control_module import ControlModule, BeamMode\n"
    \o "import threading\n"
    \o "import time\n"
    \o "\n"
    \o "c = ControlModule('buggy')\n"
    \o "\n"
    \o "# Emergency case - no time for delays\n"
    \o "c.setup_treatment(300, " \o ToString(vuId * 2) \o ", " \o ToString(vuId * 4) \o ")\n"
    \o "c.change_mode(BeamMode.ELECTRON)\n"
    \o "\n"
    \o "# Immediate fire (emergency situations cause accidents)\n"
    \o "result = c.fire_beam()\n"
    \o "print(f'EMERGENCY_" \o ToString(vuId) \o ":{result}')\n"
    \o "\""

routineEditingCommand(vuId) ==
    "cd /app && python -c \"\n"
    \o "from src.simulator.control_module import ControlModule, BeamMode\n"
    \o "import threading\n"
    \o "import time\n"
    \o "\n"
    \o "c = ControlModule('buggy')\n"
    \o "\n"
    \o "# Initial setup\n"
    \o "c.setup_treatment(250, 10, 15)\n"
    \o "\n"
    \o "# Multiple edits (creates race conditions)\n"
    \o "def edit1():\n"
    \o "    time.sleep(0.02)\n"
    \o "    c.edit_treatment('dose', " \o ToString(400 + vuId * 50) \o ")\n"
    \o "\n"
    \o "def edit2():\n"
    \o "    time.sleep(0.05)\n"
    \o "    c.edit_treatment('position_x', " \o ToString(vuId * 7) \o ")\n"
    \o "\n"
    \o "# Start concurrent edits\n"
    \o "t1 = threading.Thread(target=edit1)\n"
    \o "t2 = threading.Thread(target=edit2)\n"
    \o "t1.start()\n"
    \o "t2.start()\n"
    \o "\n"
    \o "# Try to fire while editing (DANGEROUS)\n"
    \o "time.sleep(0.03)\n"
    \o "result = c.fire_beam()\n"
    \o "\n"
    \o "t1.join()\n"
    \o "t2.join()\n"
    \o "\n"
    \o "print(f'EDITING_" \o ToString(vuId) \o ":{result}')\n"
    \o "\""

modeSwitchingCommand(vuId) ==
    "cd /app && python -c \"\n"
    \o "from src.simulator.control_module import ControlModule, BeamMode\n"
    \o "import time\n"
    \o "\n"
    \o "c = ControlModule('buggy')\n"
    \o "\n"
    \o "# Setup\n"
    \o "c.setup_treatment(275, " \o ToString(vuId * 6) \o ", " \o ToString(vuId * 8) \o ")\n"
    \o "\n"
    \o "# Rapid mode switches (causes race conditions)\n"
    \o "modes = [BeamMode.XRAY, BeamMode.ELECTRON, BeamMode.XRAY, BeamMode.ELECTRON]\n"
    \o "for mode in modes:\n"
    \o "    c.change_mode(mode)\n"
    \o "    time.sleep(0.02)  # Very short delay\n"
    \o "\n"
    \o "# Fire after rapid switches\n"
    \o "result = c.fire_beam()\n"
    \o "print(f'SWITCHING_" \o ToString(vuId) \o ":{result}')\n"
    \o "\""

standardCommand(vuId) ==
    "cd /app && python -c \"\n"
    \o "from src.simulator.control_module import ControlModule, BeamMode\n"
    \o "\n"
    \o "c = ControlModule('buggy')\n"
    \o "c.setup_treatment(" \o ToString(225 + vuId * 15) \o ", " \o ToString(vuId * 4) \o ", " \o ToString(vuId * 5) \o ")\n"
    \o "c.change_mode(BeamMode.ELECTRON)\n"
    \o "result = c.fire_beam()\n"
    \o "print(f'STANDARD_" \o ToString(vuId) \o ":{result}')\n"
    \o "\""

newCautiousCommand(vuId) ==
    "cd /app && python -c \"\n"
    \o "from src.simulator.control_module import ControlModule, BeamMode\n"
    \o "import time\n"
    \o "\n"
    \o "c = ControlModule('buggy')\n"
    \o "\n"
    \o "# Slow, careful setup\n"
    \o "c.setup_treatment(180, " \o ToString(vuId * 3) \o ", " \o ToString(vuId * 2) \o ")\n"
    \o "time.sleep(0.2)  # Cautious pause\n"
    \o "\n"
    \o "c.change_mode(BeamMode.ELECTRON)\n"
    \o "time.sleep(0.3)  # Another pause\n"
    \o "\n"
    \o "result = c.fire_beam()\n"
    \o "print(f'CAUTIOUS_" \o ToString(vuId) \o ":{result}')\n"
    \o "\""

WorkflowCommand(w, vuId) ==
    CASE w = "experienced_fast" -> experiencedFastCommand(vuId)
      [] w = "new_cautious"     -> newCautiousCommand(vuId)
      [] w = "emergency_rapid"  -> emergencyRapidCommand(vuId)
      [] w = "routine_editing"  -> routineEditingCommand(vuId)
      [] w = "mode_switching"   -> modeSwitchingCommand(vuId)
      [] OTHER                  -> standardCommand(vuId)

\* error.message of the exception execSync throws: the timeout kills the
\* child, or the child exits with a failure
ExecErrors(command) ==
    { "spawnSync /bin/sh ETIMEDOUT",
      "Command failed: " \o command \o "\n/bin/sh: 1: python: not found\n" }

\* "return `ERROR_${workflow}: ${error.message}`"
ErrorTokenBare(w, msg) == msg

ErrorToken(w, msg) == "ERROR_" \o w \o ": " \o msg

\* what str(c.fire_beam()) may be: the target's outcome tokens
FireResults ==
    { "SUCCESS", "LETHAL_OVERDOSE", "RACE_CONDITION_DETECTED",
      "INCONSISTENT_STATE|CONFLICT" }

\* c.change_mode(mode)
ChangeMode(cm, m) == [cm EXCEPT !.mode = m]

\* c.edit_treatment(field, value)
EditTreatment(cm, field, value) ==
    IF field = "dose" THEN [cm EXCEPT !.dose_value = value]
    ELSE IF field = "position_x" THEN [cm EXCEPT !.position_x = value]
    ELSE cm

\* the instance after operation o of a script
ApplyOp(cm, o) ==
    CASE o.op = "setup" -> SetupTreatment(cm, o.f1, o.f2, o.f3, <<TRUE, TRUE>>)
      [] o.op = "mode"  -> ChangeMode(cm, o.name)
      [] o.op = "edit"  -> EditTreatment(cm, o.name, o.f1)
      [] OTHER          -> cm

\* the checks of the default function, applied to its result
ConcurrentChecksThree(r) ==
    ("No lethal conditions" :> ~Includes(r, "LETHAL"))
    @@ ("No overdose conditions" :> ~Includes(r, "OVERDOSE"))
    @@ ("No critical errors" :> ~Includes(r, "CRITICAL_ERROR"))

ConcurrentChecksExact(r) ==
    ("No lethal conditions" :> ~(r = "LETHAL"))
    @@ ("No overdose conditions" :> ~(r = "OVERDOSE"))
    @@ ("No critical errors" :> ~(r = "CRITICAL_ERROR"))
    @@ ("State consistency maintained" :> ~(r = "INCONSISTENT"))

ConcurrentChecks(r) ==
    ("No lethal conditions" :> ~Includes(r, "LETHAL"))
    @@ ("No overdose conditions" :> ~Includes(r, "OVERDOSE"))
    @@ ("No critical errors" :> ~Includes(r, "CRITICAL_ERROR"))
    @@ ("State consistency maintained" :> ~Includes(r, "INCONSISTENT"))

\* "if (result.includes('RACE') || result.includes('CONFLICT'))"
RaceTest(r) == Includes(r, "RACE") \/ Includes(r, "CONFLICT")

\* what one classification (lines 37-51) computes from a result
Classification(r) == [checks |-> ConcurrentChecks(r), race |-> RaceTest(r)]

\* the checks of a battery that passed / failed
Passed(b) == {n \in DOMAIN b : b[n]}

Failed(b) == {n \in DOMAIN b : ~b[n]}

\* the line the script prints, as execSync returns it: "return result.trim()"
ScriptOutput(w, vuId, fired) ==
    Trim(WorkflowLabel(w) \o ToString(vuId) \o ":" \o fired \o "\n")

\* the tokens the catch of executeWorkflow can return for workflow w of VU vuId
ThrowTokens(w, vuId) ==
    {ErrorToken(w, msg) : msg \in ExecErrors(WorkflowCommand(w, vuId))}

\* Tables of the two definitions above, computed once: every token an
\* iteration can return, and for every token its classification
ThrowTable ==
    [w \in {workflows[i] : i \in 1..Len(workflows)}, v \in VUs |-> ThrowTokens(w, v)]

ResultTokens ==
    UNION {ThrowTable[w, v] \cup {ScriptOutput(w, v, t) : t \in FireResults} :
              w \in {workflows[i] : i \in 1..Len(workflows)}, v \in VUs}

---------------------------------------------------------------------------
(* Concurrent-operations scenario: the VU iterations and the summary       *)

NoSummary == [test_type |-> "none"]

NoInput == [markers |-> {}, form |-> "none"]

\* no metric collected, no verdict yet
NoSnapshot == [m \in {} |-> m]

NoVerdict == [failures |-> <<>>]

\* the tokens the classifier specification draws its input from: every set of
\* hazard markers, joined by a delimiter, bare or inside the three token forms
Markers == <<"LETHAL", "OVERDOSE", "CRITICAL_ERROR", "INCONSISTENT", "RACE", "CONFLICT">>

MarkerSet == {Markers[i] : i \in 1..Len(Markers)}

TokenForms == {"bare", "script", "error"}

ClassifierInputs == [markers : SUBSET MarkerSet, form : TokenForms]

ClassifierToken(in) ==
    LET body == Join("|", SelectSeq(Markers, LAMBDA m : m \in in.markers)) IN
    CASE in.form = "bare"   -> IF in.markers = {} THEN "SUCCESS" ELSE body
      [] in.form = "script" -> "CAUTIOUS_1:" \o (IF in.markers = {} THEN "None" ELSE body)
      [] OTHER              -> "ERROR_new_cautious: Command failed: " \o body

ClassificationTable ==
    [r \in ResultTokens \cup {ClassifierToken(in) : in \in ClassifierInputs} |->
        Classification(r)]

\* the VUs that are inside an iteration
Active == {v \in VUs : vupc[v] # "idle"}

CcInit ==
    /\ vupc = [v \in VUs |-> "idle"]
    /\ workflow = [v \in VUs |-> ""]
    /\ step = [v \in VUs |-> 0]
    /\ todo = [v \in VUs |-> {}]
    /\ target = [v \in VUs |-> NewControlModule]
    /\ py_result = [v \in VUs |-> ""]
    /\ opLog = [v \in VUs |-> <<>>]
    /\ result = [v \in VUs |-> ""]
    /\ threw = [v \in VUs |-> FALSE]
    /\ lastChecks = [v \in VUs |-> <<>>]
    /\ raceConditionsDetected = [r \in Runtimes |-> 0]
    /\ checks_passes = 0
    /\ checks_fails = 0
    /\ iterations = 0
    /\ raceIterations = 0
    /\ summary = NoSummary

\* lines 28-35 and the head of each script: the VU picks its workflow, the
\* Python child starts and constructs its ControlModule
StartIteration(v) ==
    /\ scenario = "concurrent"
    /\ vupc[v] = "idle"
    /\ verdict = NoVerdict
    /\ summary = NoSummary
    /\ Cardinality(Active) < MaxActive
    /\ iterations + Cardinality(Active) < MaxIterations
    /\ LET w == getWorkflowForOperator(v) IN
          /\ workflow' = [workflow EXCEPT ![v] = w]
          /\ todo' = [todo EXCEPT ![v] = WorkflowScript(w, v)[1]]
    /\ vupc' = [vupc EXCEPT ![v] = "running"]
    /\ step' = [step EXCEPT ![v] = 1]
    /\ target' = [target EXCEPT ![v] = NewControlModule]
    /\ py_result' = [py_result EXCEPT ![v] = ""]
    /\ opLog' = [opLog EXCEPT ![v] = <<>>]
    /\ UNCHANGED <<result, threw, lastChecks, runVars, scenario, ovVars, pureVars, evVars, spVars>>

\* operation o of the script of VU v on the child's ControlModule, o not being
\* the last operation of the script
TargetOpOf(v, o) ==
    /\ scenario = "concurrent"
    /\ vupc[v] = "running"
    /\ o \in todo[v]
    /\ ~(step[v] = Len(WorkflowScript(workflow[v], v)) /\ todo[v] = {o})
    /\ target' = [target EXCEPT ![v] = ApplyOp(@, o)]
    /\ opLog' = [opLog EXCEPT ![v] = Append(@, o.name)]
    /\ IF o.op = "fire"
       THEN \E token \in FireResults : py_result' = [py_result EXCEPT ![v] = token]
       ELSE py_result' = py_result
    /\ IF todo[v] = {o}
       THEN /\ step' = [step EXCEPT ![v] = @ + 1]
            /\ todo' = [todo EXCEPT ![v] = WorkflowScript(workflow[v], v)[step[v] + 1]]
       ELSE /\ step' = step
            /\ todo' = [todo EXCEPT ![v] = @ \ {o}]
    /\ UNCHANGED <<vupc, workflow, result, threw, lastChecks, runVars, scenario, ovVars,
                   pureVars, evVars, spVars>>

\* one operation of the script of VU v, any of the tasks that are ready
TargetOp(v) == \E o \in todo[v] : TargetOpOf(v, o)

\* o is the last operation of the script; the script prints its line and
\* ends, and execSync returns it
ReturnAfter(v, o) ==
    /\ scenario = "concurrent"
    /\ vupc[v] = "running"
    /\ step[v] = Len(WorkflowScript(workflow[v], v))
    /\ todo[v] = {o}
    /\ \E fired \in (IF o.op = "fire" THEN FireResults ELSE {py_result[v]}) :
          result' = [result EXCEPT ![v] = ScriptOutput(workflow[v], v, fired)]
    /\ vupc' = [vupc EXCEPT ![v] = "returned"]
    /\ step' = [step EXCEPT ![v] = 0]
    /\ todo' = [todo EXCEPT ![v] = {}]
    /\ target' = [target EXCEPT ![v] = NewControlModule]
    /\ py_result' = [py_result EXCEPT ![v] = ""]
    /\ opLog' = [opLog EXCEPT ![v] = <<>>]
    /\ UNCHANGED <<workflow, threw, lastChecks, runVars, scenario, ovVars, pureVars, evVars, spVars>>

Return(v) == \E o \in todo[v] : ReturnAfter(v, o)

\* lines 91-93: execSync throws while the child runs or when it ends, and the
\* catch of executeWorkflow returns the error token
Throw(v) ==
    /\ scenario = "concurrent"
    /\ vupc[v] = "running"
    /\ \E token \in ThrowTable[workflow[v], v] : result' = [result EXCEPT ![v] = token]
    /\ threw' = [threw EXCEPT ![v] = TRUE]
    /\ vupc' = [vupc EXCEPT ![v] = "returned"]
    /\ step' = [step EXCEPT ![v] = 0]
    /\ todo' = [todo EXCEPT ![v] = {}]
    /\ target' = [target EXCEPT ![v] = NewControlModule]
    /\ py_result' = [py_result EXCEPT ![v] = ""]
    /\ opLog' = [opLog EXCEPT ![v] = <<>>]
    /\ UNCHANGED <<workflow, lastChecks, runVars, scenario, ovVars, pureVars, evVars, spVars>>

\* lines 37-51: check(result, checks) and the race detection
Classify(v) ==
    /\ scenario = "concurrent"
    /\ vupc[v] = "returned"
    /\ LET b == ClassificationTable[result[v]].checks IN
          /\ lastChecks' = [lastChecks EXCEPT ![v] = b]
          /\ checks_passes' = checks_passes + Cardinality(Passed(b))
          /\ checks_fails' = checks_fails + Cardinality(Failed(b))
    /\ IF ClassificationTable[result[v]].race
       THEN /\ raceConditionsDetected' = [raceConditionsDetected EXCEPT ![v] = @ + 1]
            /\ raceIterations' = raceIterations + 1
       ELSE UNCHANGED <<raceConditionsDetected, raceIterations>>
    /\ vupc' = [vupc EXCEPT ![v] = "classified"]
    /\ UNCHANGED <<workflow, step, todo, target, py_result, opLog, result, threw,
                   iterations, summary, scenario, ovVars, pureVars, evVars, spVars>>

\* lines 53-55: the sleep, and the iteration ends
EndIteration(v) ==
    /\ scenario = "concurrent"
    /\ vupc[v] = "classified"
    /\ vupc' = [vupc EXCEPT ![v] = "idle"]
    /\ iterations' = iterations + 1
    /\ workflow' = [workflow EXCEPT ![v] = ""]
    /\ result' = [result EXCEPT ![v] = ""]
    /\ threw' = [threw EXCEPT ![v] = FALSE]
    /\ lastChecks' = [lastChecks EXCEPT ![v] = <<>>]
    /\ UNCHANGED <<step, todo, target, py_result, opLog, raceConditionsDetected,
                   checks_passes, checks_fails, raceIterations, summary,
                   scenario, ovVars, pureVars, evVars, spVars>>

\* "data.metrics.checks?.values.rate || 0", as the fraction passes / total
CheckRate ==
    IF checks_passes + checks_fails = 0 THEN [passes |-> 0, total |-> 1]
    ELSE [passes |-> checks_passes, total |-> checks_passes + checks_fails]

\* the value of raceConditionsDetected that handleSummary reads
SummaryRaceCountOfVU1 == raceConditionsDetected[1]

SummaryRaceCount == raceConditionsDetected[SummaryRuntime]

\* lines 268-299: the run is over and its thresholds are evaluated;
\* handleSummary writes summary.json
HandleSummary ==
    /\ scenario = "concurrent"
    /\ Active = {}
    /\ verdict # NoVerdict
    /\ summary = NoSummary
    /\ summary' = [test_type |-> "concurrent_operations",
                   race_conditions |-> SummaryRaceCount,
                   safety_success_rate |-> CheckRate,
                   total_sessions |-> iterations]
    /\ UNCHANGED <<vuVars, raceConditionsDetected, checks_passes, checks_fails,
                   iterations, raceIterations, scenario, ovVars, pureVars, evVars, spVars>>

CcNext ==
    \/ \E v \in VUs : StartIteration(v)
    \/ \E v \in VUs : TargetOp(v)
    \/ \E v \in VUs : Return(v)
    \/ \E v \in VUs : Throw(v)
    \/ \E v \in VUs : Classify(v)
    \/ \E v \in VUs : EndIteration(v)
    \/ HandleSummary

---------------------------------------------------------------------------
(* Thresholds and the verdict of the run                                   *)

\* "thresholds: {...}" of the concurrent scenario: metric name and expression
ConcurrentThresholdsLax ==
    << <<"checks", "rate>=0.90">>,
       <<"http_req_duration", "p(95)<3000">>,
       <<"race_conditions_detected", "count<5">> >>

ConcurrentThresholds ==
    << <<"checks", "rate>0.90">>,
       <<"http_req_duration", "p(95)<3000">>,
       <<"race_conditions_detected", "count<5">> >>

\* "thresholds: {...}" of the overflow stress test
OverflowThresholds ==
    << <<"checks", "rate>0.95">>,
       <<"counter_overflow_detected", "count>0">>,
       <<"safety_bypass_detected", "count>0">> >>

\* the thresholds of the script a run executes
Thresholds(s) == IF s = "overflow" THEN OverflowThresholds ELSE ConcurrentThresholds

\* numbers are fractions num / den
Whole(n) == [num |-> n, den |-> 1]

Digits == "0123456789"

DigitValue(ch) == (CHOOSE i \in 1..Len(Digits) : SubSeq(Digits, i, i) = ch) - 1

\* the value of a decimal literal such as 0.90 or 3000
RECURSIVE ParseDecimalFrom(_, _, _, _)
ParseDecimalFrom(s, num, den, fraction) ==
    IF Len(s) = 0 THEN [num |-> num, den |-> den]
    ELSE IF SubSeq(s, 1, 1) = "."
         THEN ParseDecimalFrom(SubSeq(s, 2, Len(s)), num, den, TRUE)
         ELSE ParseDecimalFrom(SubSeq(s, 2, Len(s)),
                               10 * num + DigitValue(SubSeq(s, 1, 1)),
                               IF fraction THEN 10 * den ELSE den, fraction)

ParseDecimal(s) == ParseDecimalFrom(s, 0, 1, FALSE)

\* a threshold expression "<aggregate><comparator><value>"
ParseThreshold(expr) ==
    LET at == CHOOSE i \in 1..Len(expr) :
                  /\ SubSeq(expr, i, i) \in {"<", ">"}
                  /\ \A j \in 1..(i - 1) : SubSeq(expr, j, j) \notin {"<", ">"}
        orEqual == at < Len(expr) /\ SubSeq(expr, at + 1, at + 1) = "="
        last == IF orEqual THEN at + 1 ELSE at
    IN  [aggregate |-> SubSeq(expr, 1, at - 1),
         comparator |-> SubSeq(expr, at, last),
         value |-> ParseDecimal(SubSeq(expr, last + 1, Len(expr)))]

\* a comparator applied to two fractions
Compare(a, comparator, b) ==
    CASE comparator = ">"  -> a.num * b.den > b.num * a.den
      [] comparator = ">=" -> a.num * b.den >= b.num * a.den
      [] comparator = "<"  -> a.num * b.den < b.num * a.den
      [] comparator = "<=" -> a.num * b.den =< b.num * a.den
      [] OTHER             -> FALSE

\* a threshold holds of a snapshot: the metric and the aggregate are in the
\* snapshot and the comparison holds; a missing metric is a failure
Holds(snap, th) ==
    LET p == ParseThreshold(th[2]) IN
    /\ th[1] \in DOMAIN snap
    /\ p.aggregate \in DOMAIN snap[th[1]]
    /\ Compare(snap[th[1]][p.aggregate], p.comparator, p.value)

\* evaluate(snapshot, thresholds) -> {pass, failures}
Evaluate(snap, ths) ==
    LET failures == SelectSeq(ths, LAMBDA th : ~Holds(snap, th)) IN
    [pass |-> failures = <<>>, failures |-> failures]

\* the custom metrics a script records through k6/metrics, with their count:
\* no script imports k6/metrics, creates a Counter or adds to one
CustomCountersZero ==
    [n \in {"race_conditions_detected", "counter_overflow_detected",
            "safety_bypass_detected"} |-> 0]

CustomCounters == [n \in {} |-> 0]

\* the run is over: the single iteration of the overflow test is done, or no
\* VU of the concurrent scenario is inside an iteration
RunOver == IF scenario = "overflow" THEN ovpc = "done" ELSE Active = {}

\* the metrics the code of the run recorded: "checks" through check(),
\* "iterations" by running the default function, and the custom counters
RecordedMetrics ==
    ("checks" :> ("rate" :>
        (IF scenario = "overflow"
         THEN [num |-> Cardinality(Passed(ovChecks)),
               den |-> Cardinality(DOMAIN OverflowChecks(""))]
         ELSE [num |-> CheckRate.passes, den |-> CheckRate.total])))
    @@ ("iterations" :> ("count" :>
        Whole(IF scenario = "overflow" THEN 1 ELSE iterations)))
    @@ [n \in DOMAIN CustomCounters |-> ("count" :> Whole(CustomCounters[n]))]

\* the snapshots the thresholds may be evaluated against: no script issues an
\* HTTP request, so http_req_duration is absent or has no sample
RunSnapshots ==
    { RecordedMetrics,
      RecordedMetrics @@ ("http_req_duration" :> ("p(95)" :> Whole(0))) }

\* end of the run: the thresholds are evaluated against the metrics
EvaluateThresholds ==
    /\ RunOver
    /\ verdict = NoVerdict
    /\ \E snap \in RunSnapshots :
          /\ snapshot' = snap
          /\ verdict' = Evaluate(snap, Thresholds(scenario))
    /\ UNCHANGED <<scenario, ovVars, ccVars, pureVars, spVars>>

EvInit ==
    /\ snapshot = NoSnapshot
    /\ verdict = NoVerdict

---------------------------------------------------------------------------
(* Specifications                                                          *)

\* the bounds of the dispatch specification: VU ids 0..MaxVuId, MaxCalls calls
MaxVuId == 24

MaxCalls == 4

PureInit ==
    /\ clInput = NoInput
    /\ dVuId = 0
    /\ dReturned = <<>>

\* A k6 run executes one of the two scripts.
Init ==
    /\ scenario \in {"overflow", "concurrent"}
    /\ OvInit
    /\ CcInit
    /\ PureInit
    /\ EvInit
    /\ SpInit

Next == OvNext \/ CcNext \/ EvaluateThresholds

Spec == Init /\ [][Next]_vars

\* The classifier on its own: VU 1 has a result in hand (line 35); the result
\* is drawn from the classifier tokens, and lines 37-51 are applied to it.
ClassifyInit ==
    /\ scenario = "concurrent"
    /\ OvInit
    /\ clInput \in ClassifierInputs
    /\ dVuId = 0
    /\ dReturned = <<>>
    /\ EvInit
    /\ SpInit
    /\ vupc = [v \in VUs |-> IF v = 1 THEN "returned" ELSE "idle"]
    /\ workflow = [v \in VUs |-> IF v = 1 THEN getWorkflowForOperator(v) ELSE ""]
    /\ result = [v \in VUs |-> IF v = 1 THEN ClassifierToken(clInput) ELSE ""]
    /\ step = [v \in VUs |-> 0]
    /\ todo = [v \in VUs |-> {}]
    /\ target = [v \in VUs |-> NewControlModule]
    /\ py_result = [v \in VUs |-> ""]
    /\ opLog = [v \in VUs |-> <<>>]
    /\ threw = [v \in VUs |-> FALSE]
    /\ lastChecks = [v \in VUs |-> <<>>]
    /\ raceConditionsDetected = [r \in Runtimes |-> 0]
    /\ checks_passes = 0
    /\ checks_fails = 0
    /\ iterations = 0
    /\ raceIterations = 0
    /\ summary = NoSummary

ClassifyNext == \E v \in VUs : Classify(v)

SpecClassify == ClassifyInit /\ [][ClassifyNext]_vars

\* The dispatch on its own: line 34 of the default function, called by the
\* VU with id dVuId in its successive iterations.
DispatchInit ==
    /\ scenario = "concurrent"
    /\ OvInit
    /\ CcInit
    /\ clInput = NoInput
    /\ dVuId \in 0..MaxVuId
    /\ dReturned = <<>>
    /\ EvInit
    /\ SpInit

DispatchCall ==
    /\ Len(dReturned) < MaxCalls
    /\ dReturned' = Append(dReturned, getWorkflowForOperator(dVuId))
    /\ UNCHANGED <<scenario, ovVars, ccVars, clInput, dVuId, evVars, spVars>>

SpecDispatch == DispatchInit /\ [][DispatchCall]_vars

\* The threshold evaluation on its own: the thresholds of the concurrent
\* scenario against snapshots drawn from every check rate n / d with
\* d <= MaxChecks, a duration percentile and a race count that are absent,
\* inside, or at the limit of their threshold.
MaxChecks == 20

EvalSnapshots ==
    { ("checks" :> ("rate" :> [num |-> q[1], den |-> q[2]])) @@ h @@ r :
        q \in {x \in (0..MaxChecks) \X (1..MaxChecks) : x[1] =< x[2]},
        h \in {NoSnapshot} \cup
              {("http_req_duration" :> ("p(95)" :> Whole(ms))) : ms \in {0, 2999, 3000}},
        r \in {NoSnapshot} \cup
              {("race_conditions_detected" :> ("count" :> Whole(k))) : k \in {0, 4, 5}} }

EvaluateInit ==
    /\ scenario = "concurrent"
    /\ OvInit
    /\ CcInit
    /\ PureInit
    /\ snapshot \in EvalSnapshots
    /\ verdict = NoVerdict
    /\ SpInit

EvaluateCall ==
    /\ verdict = NoVerdict
    /\ verdict' = Evaluate(snapshot, ConcurrentThresholds)
    /\ UNCHANGED <<scenario, ovVars, ccVars, pureVars, snapshot, spVars>>

SpecEvaluate == EvaluateInit /\ [][EvaluateCall]_vars

\* testSpecificOverflowScenarios on its own (no other function calls it)
SpecificInit ==
    /\ scenario = "overflow"
    /\ OvInit
    /\ CcInit
    /\ PureInit
    /\ EvInit
    /\ SpInit

SpecSpecific == SpecificInit /\ [][SpNext]_vars

---------------------------------------------------------------------------
(* Properties of the overflow stress driver                                *)

\* the driver is between two loop iterations or about to probe: the detection
\* code (lines 72-80) has run for the latest main-loop setup
OvSettled == ovpc \in {"loop", "probe"}

\* the run ended normally: execSync returned the script's output
OvCompleted == ovpc \in {"returned", "done"} /\ ~StartsWith(ovResult, "ERROR")

\* C1: against the 8-bit counter that starts at 0, after exactly 255 setup
\* calls the counter is 255 and no wraparound has been observed; after exactly
\* 256 setup calls the counter is 0 and the wraparound has been observed.
C1_CounterAt255And256 ==
    /\ (OvSettled /\ Setups = 255) => (c.setup_counter = 255 /\ ~overflow_detected)
    /\ (OvSettled /\ Setups = 256) => (c.setup_counter = 0 /\ overflow_detected)

C1_Witness == ovpc = "probe" /\ Setups = 256 /\ c.setup_counter = 0 /\ overflow_detected

\* C2: overflow_detected (and the token OVERFLOW_DETECTED of a completed run)
\* is set if and only if some setup made the counter decrease, and the overflow
\* test fires only on the transition that did.
C2_DetectedIffWrapped ==
    /\ OvSettled => (overflow_detected <=> wraps # {})
    /\ ovpc = "exited" => (overflow_detected <=> wraps # {})
    /\ ovpc = "probe" => <<"patient", patient>> \in wraps
    /\ OvCompleted => (Includes(ovResult, "OVERFLOW_DETECTED") <=> wraps # {})

C2_Witness ==
    /\ ovpc = "done"
    /\ OvCompleted
    /\ Includes(ovResult, "OVERFLOW_DETECTED")
    /\ wraps = {<<"patient", 256>>}

\* C3 (as claimed): every counter value the target takes inside the critical
\* window is recorded in critical_points with the patient at which it occurred,
\* the value reached by the bypass probe included.
C3_WindowValuesRecorded ==
    (ovpc = "loop" /\ patient >= 1 /\ InCriticalWindow(c.setup_counter))
        => \E i \in 1..Len(critical_points) :
              critical_points[i] = <<patient, c.setup_counter>>

\* C4: the probe is issued right after each detected wraparound, the target
\* untouched in between, and the bypass signal (safety_bypasses, token
\* SAFETY_BYPASS) is set iff a probe was accepted and left the dose at 99999.
ProbeBypassed ==
    \E i \in 1..Len(probe_log) :
        probe_log[i].safety_test /\ probe_log[i].dose_value = ProbeDose

C4_ProbeAndBypassSignal ==
    /\ ovpc = "probe" =>
          /\ c.setup_counter = current_counter
          /\ <<"patient", patient>> \in wraps
          /\ \A i \in 1..Len(probe_log) : probe_log[i].patient # patient
    /\ \A w \in wraps :
          (w[1] = "patient" /\ (w[2] < patient \/ (w[2] = patient /\ ovpc = "loop")))
              => \E i \in 1..Len(probe_log) : probe_log[i].patient = w[2]
    /\ \A i \in 1..Len(probe_log) : <<"patient", probe_log[i].patient>> \in wraps
    /\ (Len(safety_bypasses) > 0) <=> ProbeBypassed
    /\ OvCompleted => (Includes(ovResult, "SAFETY_BYPASS") <=> ProbeBypassed)

C4_Witness ==
    /\ ovpc = "done"
    /\ OvCompleted
    /\ Includes(ovResult, "SAFETY_BYPASS")
    /\ Len(probe_log) = 1
    /\ probe_log[1].patient = 256

\* the number of steps the driver has at most left: three per patient to
\* come (setup, tracking, probe), then the report, the return and the checks
OvRank ==
    CASE ovpc = "track"    -> 5
      [] ovpc = "probe"    -> 4
      [] ovpc = "loop"     -> 3
      [] ovpc = "exited"   -> 2
      [] ovpc = "returned" -> 1
      [] OTHER             -> 0

OvMeasure == 3 * (NumPatients - patient) + OvRank

\* the last line of a normal output: the summary token
MarkerSummary == Join(":", ResultParts)

\* C17: the overflow driver is one sequential run that terminates: it is never
\* stuck before its end and every step brings the end closer; the main-loop
\* setups are those of patients 1, 2, ..., 300 in this order, each moving the
\* counter from c to (c + 1) mod 256, and the script ends only after patient
\* 300; the run yields its result once, a marker summary or an ERROR token.
C17_SequentialRunTerminates ==
    /\ [](scenario = "overflow" => (ovpc = "done" \/ ENABLED OvNext))
    /\ [](OvMeasure >= 0 /\ patient \in 0..NumPatients)
    /\ [][OvMeasure' < OvMeasure]_ovVars
    /\ [][/\ patient' # patient => (patient' = patient + 1 /\ c' # c /\ ovpc = "loop")
          /\ c' # c => c'.setup_counter = (c.setup_counter + 1) % 256
          /\ ovResult' # ovResult => (ovResult = "" /\ ovpc' = "returned")]_ovVars
    /\ [](ovpc \in {"loop", "track", "probe", "exited"} => ovResult = "")
    /\ [](ovpc = "exited" => patient = NumPatients)
    /\ [](ovpc \in {"returned", "done"} =>
            IF ovThrew
            THEN StartsWith(ovResult, "ERROR: ")
            ELSE /\ patient = NumPatients
                 /\ Len(ovResult) >= Len(MarkerSummary)
                 /\ SubSeq(ovResult, Len(ovResult) - Len(MarkerSummary) + 1, Len(ovResult))
                       = MarkerSummary)

C17_Witness ==
    /\ ovpc = "done"
    /\ ~ovThrew
    /\ patient = NumPatients
    /\ c.setup_counter = (NumPatients + 1) % CounterModulus
    /\ Includes(ovResult, "Processed 300/300 patients...")

\* C18: in the result of every run SAFETY_BYPASS occurs only if
\* OVERFLOW_DETECTED occurs, and OVERFLOW_DETECTED only if COUNTER_0 occurs; a
\* bypass is never recorded without a detected wraparound, and a detected
\* wraparound always has a critical point with counter value 0.
C18_MarkerImplication ==
    /\ Len(safety_bypasses) > 0 => overflow_detected
    /\ overflow_detected =>
          \E i \in 1..Len(critical_points) : critical_points[i][2] = 0
    /\ ovpc \in {"returned", "done"} =>
          /\ Includes(ovResult, "SAFETY_BYPASS") => Includes(ovResult, "OVERFLOW_DETECTED")
          /\ Includes(ovResult, "OVERFLOW_DETECTED") => Includes(ovResult, "COUNTER_0")
    /\ ovpc = "done" =>
          /\ ovChecks["Safety bypass confirmed"] => ovChecks["Counter overflow reproduced"]
          /\ ovChecks["Counter overflow reproduced"] => ovChecks["Critical bug present"]

C18_Witness ==
    /\ ovpc = "done"
    /\ ~ovThrew
    /\ safety_bypasses = <<256>>
    /\ \E i \in 1..Len(critical_points) : critical_points[i] = <<256, 0>>
    /\ Passed(ovChecks) = DOMAIN ovChecks

---------------------------------------------------------------------------
(* Properties of the concurrent-operations scenario                        *)

C6_PermissiveMatching ==
    \A v \in VUs :
        /\ (vupc[v] = "returned" /\ clInput # NoInput) => ENABLED Classify(v)
        /\ (vupc[v] = "classified" /\ clInput # NoInput) =>
              /\ lastChecks[v]["No lethal conditions"] = ("LETHAL" \notin clInput.markers)
              /\ lastChecks[v]["No overdose conditions"] = ("OVERDOSE" \notin clInput.markers)
              /\ lastChecks[v]["No critical errors"] =
                    ("CRITICAL_ERROR" \notin clInput.markers)
              /\ lastChecks[v]["State consistency maintained"] =
                    ("INCONSISTENT" \notin clInput.markers)
              /\ raceConditionsDetected[v] =
                    (IF "RACE" \in clInput.markers \/ "CONFLICT" \in clInput.markers
                     THEN 1 ELSE 0)

C6_Witness ==
    /\ vupc[1] = "classified"
    /\ clInput = [markers |-> {"LETHAL", "CONFLICT"}, form |-> "script"]
    /\ result[1] = "CAUTIOUS_1:LETHAL|CONFLICT"
    /\ Failed(lastChecks[1]) = {"No lethal conditions"}
    /\ raceConditionsDetected[1] = 1

\* the names of the check battery
BatteryNames ==
    { "No lethal conditions", "No overdose conditions", "No critical errors",
      "State consistency maintained" }

\* C7: an exception of the target invocation is caught: the iteration has a
\* result that starts with ERROR, the rest of the iteration (the checks, the
\* race detection, the end of the iteration) still runs, and no VU is stopped.
C7_IterationIsolation ==
    /\ \A v \in VUs :
          /\ threw[v] =>
                /\ vupc[v] \in {"returned", "classified"}
                /\ StartsWith(result[v], "ERROR")
                /\ vupc[v] = "returned" => ENABLED Classify(v)
                /\ vupc[v] = "classified" =>
                      (DOMAIN lastChecks[v] = BatteryNames /\ ENABLED EndIteration(v))
          /\ (/\ scenario = "concurrent"
              /\ vupc[v] = "idle"
              /\ verdict = NoVerdict
              /\ summary = NoSummary
              /\ Cardinality(Active) < MaxActive
              /\ iterations + Cardinality(Active) < MaxIterations)
                => ENABLED StartIteration(v)
    /\ ovThrew =>
          /\ ovpc \in {"returned", "done"}
          /\ StartsWith(ovResult, "ERROR")
          /\ ovpc = "returned" => ENABLED OvCheck
          /\ ovpc = "done" => DOMAIN ovChecks = DOMAIN OverflowChecks("")

C7_Witness ==
    \E v, w \in VUs :
        /\ v # w
        /\ threw[v]
        /\ vupc[v] = "classified"
        /\ vupc[w] = "running"
        /\ step[w] > 1

\* C8 (as claimed): an iteration whose outcome is the ERROR token of the catch
\* in executeWorkflow records at least one failed check.
C8_ErrorRecordsCheckFailure ==
    \A v \in VUs : (vupc[v] = "classified" /\ threw[v]) => Failed(lastChecks[v]) # {}

\* C9 (as claimed): the value of raceConditionsDetected that the summary
\* reports is the number of completed classifications whose token contained
\* RACE or CONFLICT.
C9_SummaryCountsEveryRace ==
    summary # NoSummary => summary.race_conditions = raceIterations

\* the counter of a runtime never decreases
C9_CounterNeverDecreases ==
    [][\A r \in Runtimes : raceConditionsDetected'[r] >= raceConditionsDetected[r]]_vars

\* C10 (as claimed): all VUs operate on one shared target state, so two VUs
\* whose scripts are running see the same ControlModule state.
C10_OneSharedTarget ==
    \A v, w \in VUs :
        (vupc[v] = "running" /\ vupc[w] = "running") => target[v] = target[w]

\* the iterations whose checks have been recorded: the completed ones and
\* those between their checks and their end (the sleep of line 54)
ClassifiedIterations == iterations + Cardinality({v \in VUs : vupc[v] = "classified"})

\* the check results recorded so far
RecordedChecks == checks_passes + checks_fails

RECURSIVE RaceSum(_)
RaceSum(rs) ==
    IF rs = {} THEN 0
    ELSE LET r == CHOOSE x \in rs : TRUE IN raceConditionsDetected[r] + RaceSum(rs \ {r})

\* C19: every iteration records exactly four check results, whatever its
\* token is, so the recorded check results are 4 times the iterations that
\* reached their checks (4 times the completed iterations when no VU is inside
\* an iteration), and an iteration moves the race counter by at most 1.
C19_FourChecksPerIteration ==
    /\ [](\A v \in VUs : vupc[v] = "classified" => Cardinality(DOMAIN lastChecks[v]) = 4)
    /\ [](RecordedChecks = 4 * ClassifiedIterations)
    /\ [](Active = {} => RecordedChecks = 4 * iterations)
    /\ [](RaceSum(Runtimes) =< ClassifiedIterations)
    /\ [][/\ RecordedChecks' # RecordedChecks =>
                (RecordedChecks' = RecordedChecks + 4
                 /\ ClassifiedIterations' = ClassifiedIterations + 1)
          /\ raceConditionsDetected' # raceConditionsDetected =>
                (/\ \E v \in VUs : raceConditionsDetected' =
                                        [raceConditionsDetected EXCEPT ![v] = @ + 1]
                 /\ ClassifiedIterations' = ClassifiedIterations + 1)]_vars

C19_Witness ==
    \E v \in VUs :
        /\ iterations = 1
        /\ vupc[v] = "classified"
        /\ threw[v]
        /\ RecordedChecks = 8
        /\ checks_fails = 1
        /\ RaceSum(Runtimes) = 1

\* C20: the default branch of executeWorkflow is never taken: for every VU
\* id the dispatch returns one of the five case labels, and no iteration of
\* any run executes executeStandardWorkflow or returns its STANDARD_ line.
C20_DefaultBranchUnreachable ==
    /\ \A id \in 0..MaxVuId : SwitchBranch(getWorkflowForOperator(id)) # "default"
    /\ \A v \in VUs :
          /\ vupc[v] # "idle" => SwitchBranch(workflow[v]) # "default"
          /\ vupc[v] = "running" =>
                WorkflowScript(workflow[v], v) # executeStandardWorkflow(v)
          /\ vupc[v] \in {"returned", "classified"} => ~StartsWith(result[v], "STANDARD_")

C20_Witness ==
    \E v \in VUs :
        /\ vupc[v] = "returned"
        /\ ~threw[v]
        /\ workflow[v] = "mode_switching"
        /\ StartsWith(result[v], "SWITCHING_")

---------------------------------------------------------------------------
(* Properties of the threshold evaluation                                  *)

\* the value of an aggregate of a metric of the evaluated snapshot
Sampled(metric, aggregate) == snapshot[metric][aggregate]

CustomThresholds ==
    IF scenario = "overflow"
    THEN { <<"counter_overflow_detected", "count>0">>,
           <<"safety_bypass_detected", "count>0">> }
    ELSE { <<"race_conditions_detected", "count<5">> }

---------------------------------------------------------------------------
(* Properties of the dispatch and of the workflows                         *)

\* C14 (as claimed): the operator of each VU is the one the catalogue
\* documents: VU 1 runs experienced_fast, VU 2 new_cautious, VU 3
\* emergency_rapid, VU 4 routine_editing and VU 5 mode_switching.
C14_DocumentedAssignment ==
    \A v \in VUs :
        vupc[v] = "running" =>
            /\ v = 1 => workflow[v] = "experienced_fast"
            /\ v = 2 => workflow[v] = "new_cautious"
            /\ v = 3 => workflow[v] = "emergency_rapid"
            /\ v = 4 => workflow[v] = "routine_editing"
            /\ v = 5 => workflow[v] = "mode_switching"

\* the three target operations of routine_editing that follow the setup:
\* edit1, edit2 and the fire of the main task
EditingTasks(v) == {EditOp("dose", 400 + v * 50), EditOp("position_x", v * 7), FireOp}

\* C15: in routine_editing nothing orders edit1, edit2 and fire: after the
\* initial setup, whichever of the three have run and in whatever order, each
\* of the others can be the next target operation, so every relative order
\* of the three is reachable.
C15_NoOrderAmongEditsAndFire ==
    \A v \in VUs :
        (vupc[v] = "running" /\ workflow[v] = "routine_editing") =>
            /\ step[v] = 1 => opLog[v] = <<>>
            /\ step[v] > 1 =>
                  /\ opLog[v][1] = "setup"
                  /\ \A o \in EditingTasks(v) :
                        (\A i \in 1..Len(opLog[v]) : opLog[v][i] # o.name)
                            => ENABLED (TargetOpOf(v, o) \/ ReturnAfter(v, o))

C15_Witness ==
    \E v \in VUs :
        /\ vupc[v] = "running"
        /\ workflow[v] = "routine_editing"
        /\ opLog[v] = <<"setup", "fire", "position_x">>
        /\ ENABLED ReturnAfter(v, EditOp("dose", 400 + v * 50))

---------------------------------------------------------------------------
(* Properties of testSpecificOverflowScenarios                             *)

\* the counter value the script reported for a scenario
ReportedCounter(name) ==
    LET i == CHOOSE j \in 1..Len(scenarios) : scenarios[j][1] = name IN scenarios[i][2]

\* C16 (as claimed): against the 8-bit counter that advances on each setup
\* call, AT_LIMIT reports counter 255, OVERFLOW_0 reports counter 0 and
\* AFTER_OVERFLOW reports counter 1.
C16_ReportedCounters ==
    (spc = "returned" /\ ~StartsWith(spResult, "SPECIFIC_ERROR")) =>
        /\ ReportedCounter("AT_LIMIT") = 255
        /\ Includes(spResult, "AT_LIMIT:COUNTER_255:")
        /\ ReportedCounter("OVERFLOW_0") = 0
        /\ Includes(spResult, "OVERFLOW_0:COUNTER_0:")
        /\ ReportedCounter("AFTER_OVERFLOW") = 1
        /\ Includes(spResult, "AFTER_OVERFLOW:COUNTER_1:")

\* what the script does report
C16_CountersAsReported ==
    (spc = "returned" /\ ~StartsWith(spResult, "SPECIFIC_ERROR")) =>
        /\ Includes(spResult, "AT_LIMIT:COUNTER_255:RESULT_True")
        /\ Includes(spResult, "OVERFLOW_0:COUNTER_1:RESULT_")
        /\ Includes(spResult, "AFTER_OVERFLOW:COUNTER_1:RESULT_True")
        /\ Includes(spResult, "SPECIFIC_TESTS_COMPLETED")

=============================================================================
